---------------------------- MODULE Spec2Model ----------------------------
(***************************************************************************)
(* Model of fairseq/modules/differentiable_embedding.py and of the         *)
(* sensitivity-analysis part of                                            *)
(* fairseq/models/transformer/transformer_base.py.                         *)
(*                                                                         *)
(* Four specifications share the module, one per component:                *)
(*   SpecEmb    DifferentiableEmbedding and the autograd passes through it *)
(*   SpecBuild  TransformerModelBase.build_model                           *)
(*   SpecPower  TransformerModelBase.power_method                          *)
(*   SpecNorm   operator_norm_implicit, operator_norm_implicit_hessian,    *)
(*              operator_norm and EmbeddedModel                            *)
(* Each specification leaves the variables of the other components at      *)
(* their initial values.                                                   *)
(***************************************************************************)
EXTENDS Integers, Sequences, FiniteSets, TLC

VARIABLES
    \* ---- DifferentiableEmbedding ----
    retain_input_grad,   \* self.retain_input_grad
    one_hot,             \* self.one_hot: None or the id of a tensor
    tensors,             \* the one-hot tensors created so far, by id
    weight_requires_grad,\* self.weight.requires_grad
    last_call,           \* history: the last operation and its argument
    retain_true_called,  \* history: retain_input_grad_(True) was called
    retain_at_forward,   \* history: the flag as read by the last forward
    \* ---- build_model ----
    cfg,                 \* the configuration object passed to build_model
    task,                \* the task: its source and target dictionaries
    dicts,               \* the dictionary objects, by id: their symbols
    embeddings,          \* the embeddings built so far, by id
    model,               \* None or the model build_model returned
    bm_status,           \* "idle", "returned" or "ValueError"
    \* ---- power_method ----
    pm_pc,               \* position: start, loop, break, returned, raised
    pm_env,              \* which names the prelude of power_method resolves
    max_steps,           \* the max_steps argument
    step,                \* iterations of the loop started so far
    sigma,               \* local sigma: Unbound or the estimate
    sigma_prev,          \* local sigma_prev
    pm_error,            \* the exception raised, if any
    \* ---- operator_norm_implicit, _hessian, operator_norm ----
    encoder,             \* self.encoder: device, parameters, buffers
    decoder,             \* self.decoder: device, parameters, buffers
    cuda_available,      \* whether .cuda() can succeed on this host
    nm_pc,               \* position in the estimator being run
    nm_fn,               \* the estimator being run
    nm_args,             \* its inputs: the sizes and placement of the tokens
    before,              \* history: encoder and decoder when the call began
    snapshot,            \* None, or (params, buffers) of make_functional
    shapes,              \* the shapes of the locals computed so far
    evals,               \* model_forward evaluations in this call
    nm_error             \* the exception raised, if any

embVars == <<retain_input_grad, one_hot, tensors, weight_requires_grad,
             last_call, retain_true_called, retain_at_forward>>
bmVars == <<cfg, task, dicts, embeddings, model, bm_status>>
pmVars == <<pm_pc, pm_env, max_steps, step, sigma, sigma_prev, pm_error>>

nmVars == <<encoder, decoder, cuda_available, nm_pc, nm_fn, nm_args, before,
            snapshot, shapes, evals, nm_error>>

vars == <<embVars, bmVars, pmVars, nmVars>>

notEmb == <<bmVars, pmVars, nmVars>>
notBuild == <<embVars, pmVars, nmVars>>
notPower == <<embVars, bmVars, nmVars>>
notNorm == <<embVars, bmVars, pmVars>>

\* Python's None, for references and for .grad
None == 0

Min(a, b) == IF a <= b THEN a ELSE b

(***************************************************************************)
(*                       DifferentiableEmbedding                           *)
(***************************************************************************)

\* number of forward calls explored
MaxForward == 3
\* number of backward passes accumulated into one .grad
MaxGrad == 2

\* Faulty variant of one_hot_tensor: requires_grad_(True) whatever the flag.
one_hot_tensor_always(retain, wrg) ==
    [requires_grad |-> TRUE, grad |-> None,
     out_requires_grad |-> TRUE, graph |-> TRUE]

\* forward, lines 26-32: the tensor one_hot(...).type(dtype) is a new leaf
\* that does not require grad; with the flag set it is made to require grad
\* (retain_grad() is a no-op on a leaf).  The returned product requires grad
\* when the weight or the one-hot does; graph: its autograd graph is alive.
one_hot_tensor(retain, wrg) ==
    [requires_grad |-> retain, grad |-> None,
     out_requires_grad |-> (wrg \/ retain), graph |-> TRUE]

\* Faulty variant of stored_one_hot: the intermediate of an earlier call is reused.
stored_one_hot_cached(prev, fresh) == IF prev # None THEN prev ELSE fresh

\* forward, line 26: self.one_hot is rebound to the tensor just created.
stored_one_hot(prev, fresh) == fresh

\* input_grad, lines 10-14
input_grad ==
    IF one_hot # None THEN tensors[one_hot].grad ELSE None

\* Faulty variant of cleared: the gradient is left in place.
cleared_kept(t) == t

\* unset_input_grad_, line 18: self.one_hot.grad = None
cleared(t) == [t EXCEPT !.grad = None]

\* Faulty variant of accumulate: the gradient reaches the one-hot only when the flag
\* is set at the time of the backward pass.
accumulate_by_flag(t, flag) ==
    IF flag THEN [t EXCEPT !.grad = t.grad + 1] ELSE t

\* autograd: a backward pass adds into .grad of a leaf that requires grad.
accumulate(t, flag) ==
    IF t.requires_grad THEN [t EXCEPT !.grad = t.grad + 1] ELSE t

InitEmb ==
    /\ retain_input_grad = FALSE
    /\ one_hot = None
    /\ tensors = << >>
    /\ weight_requires_grad \in BOOLEAN
    /\ last_call = [op |-> "init", arg |-> 0]
    /\ retain_true_called = FALSE
    /\ retain_at_forward = FALSE

\* retain_input_grad_, lines 20-21
retain_input_grad_(retain) ==
    /\ retain_input_grad' = retain
    /\ retain_true_called' = (retain_true_called \/ retain)
    /\ last_call' = [op |-> "retain_input_grad_", arg |-> IF retain THEN 1 ELSE 0]
    /\ UNCHANGED <<one_hot, tensors, weight_requires_grad, retain_at_forward>>
    /\ UNCHANGED notEmb

\* unset_input_grad_, lines 16-18
unset_input_grad_ ==
    /\ tensors' = IF one_hot # None
                  THEN [tensors EXCEPT ![one_hot] = cleared(tensors[one_hot])]
                  ELSE tensors
    /\ last_call' = [op |-> "unset_input_grad_", arg |-> 0]
    /\ UNCHANGED <<retain_input_grad, one_hot, weight_requires_grad,
                   retain_true_called, retain_at_forward>>
    /\ UNCHANGED notEmb

\* forward, lines 23-32
forward ==
    /\ Len(tensors) < MaxForward
    /\ tensors' = Append(tensors,
                         one_hot_tensor(retain_input_grad, weight_requires_grad))
    /\ one_hot' = stored_one_hot(one_hot, Len(tensors) + 1)
    /\ retain_at_forward' = retain_input_grad
    /\ last_call' = [op |-> "forward", arg |-> Len(tensors) + 1]
    /\ UNCHANGED <<retain_input_grad, weight_requires_grad, retain_true_called>>
    /\ UNCHANGED notEmb

\* A backward pass through the output of the forward call that made tensor
\* id.  It raises (no step) when that output does not require grad or its
\* graph was freed by an earlier pass run without retain_graph.
backward(id, retain_graph) ==
    /\ id \in DOMAIN tensors
    /\ tensors[id].out_requires_grad
    /\ tensors[id].graph
    /\ tensors[id].grad < MaxGrad
    /\ tensors' = [tensors EXCEPT ![id] =
                     [accumulate(tensors[id], retain_input_grad)
                        EXCEPT !.graph = retain_graph]]
    /\ last_call' = [op |-> "backward", arg |-> id]
    /\ UNCHANGED <<retain_input_grad, one_hot, weight_requires_grad,
                   retain_true_called, retain_at_forward>>
    /\ UNCHANGED notEmb

NextEmb ==
    \/ \E retain \in BOOLEAN : retain_input_grad_(retain)
    \/ unset_input_grad_
    \/ forward
    \/ \E id \in 1..MaxForward, retain_graph \in BOOLEAN : backward(id, retain_graph)

(***************************************************************************)
(*                   TransformerModelBase.build_model                      *)
(***************************************************************************)

\* the symbols dictionaries are made of
Symbols == {"a", "b"}
\* embedding dimensions; embedding paths (None: no --*-embed-path)
EmbedDims == {4, 8}
EmbedPaths == {None, 1, 2}
\* --*-layers-to-keep: "" or a comma-separated list, here as its items
LayersToKeep == {<< >>, <<0, 2>>}
\* cfg.encoder.layers / cfg.decoder.layers as configured
Layers == {6}

\* Dictionary.__eq__ compares the symbol tables, not the identities.
dict_eq(d1, d2) == dicts[d1] = dicts[d2]

\* Faulty variant of share_all_conflict: the embed_dim comparison is left out.
share_all_conflict_no_dim(c, src_dict, tgt_dict) ==
    IF ~dict_eq(src_dict, tgt_dict)
    THEN "--share-all-embeddings requires a joined dictionary"
    ELSE IF c.decoder.embed_path # None
            /\ c.decoder.embed_path # c.encoder.embed_path
    THEN "--share-all-embeddings not compatible with --decoder-embed-path"
    ELSE ""

\* lines 77-88: the message of the ValueError raised, "" when none is
share_all_conflict(c, src_dict, tgt_dict) ==
    IF ~dict_eq(src_dict, tgt_dict)
    THEN "--share-all-embeddings requires a joined dictionary"
    ELSE IF c.encoder.embed_dim # c.decoder.embed_dim
    THEN "--share-all-embeddings requires --encoder-embed-dim to match --decoder-embed-dim"
    ELSE IF c.decoder.embed_path # None
            /\ c.decoder.embed_path # c.encoder.embed_path
    THEN "--share-all-embeddings not compatible with --decoder-embed-path"
    ELSE ""

\* Faulty variant of embed_branch: merge_src_tgt_embed is tested first.
embed_branch_merge_first(c) ==
    IF c.merge_src_tgt_embed THEN "merge"
    ELSE IF c.share_all_embeddings THEN "share_all"
    ELSE "separate"

\* lines 76, 94, 106: the branch of the if / elif / else taken
embed_branch(c) ==
    IF c.share_all_embeddings THEN "share_all"
    ELSE IF c.merge_src_tgt_embed THEN "merge"
    ELSE "separate"

\* build_embedding, lines 119-129, and Embedding, lines 440-444: the
\* embedding built over dictionary d as it is at the time of the call
build_embedding(ds, d, embed_dim, path) ==
    [dictionary |-> d, num_embeddings |-> Cardinality(ds[d]),
     embedding_dim |-> embed_dim, path |-> path]

\* lines 69-72: cfg.X.layers = len(cfg.X.layers_to_keep.split(","))
with_layers(side) ==
    IF side.layers_to_keep # << >>
    THEN [side EXCEPT !.layers = Len(side.layers_to_keep)]
    ELSE side

\* line 113-114: offloading implies checkpointing
with_checkpointing(c) ==
    IF c.offload_activations THEN [c EXCEPT !.checkpoint_activations = TRUE]
    ELSE c

Side == [embed_dim : EmbedDims, embed_path : EmbedPaths,
         layers_to_keep : LayersToKeep, layers : Layers]

InitBuild ==
    /\ cfg \in [share_all_embeddings : BOOLEAN,
                merge_src_tgt_embed : BOOLEAN,
                share_decoder_input_output_embed : BOOLEAN,
                offload_activations : BOOLEAN,
                checkpoint_activations : {FALSE},
                encoder : Side, decoder : Side]
    /\ task \in [src_dict : {1}, tgt_dict : {1, 2}]
    /\ dicts \in [{1, 2} -> (SUBSET Symbols) \ {{}}]
    /\ embeddings = << >>
    /\ model = None
    /\ bm_status = "idle"

\* build_model, lines 59-117
build_model ==
    /\ bm_status = "idle"
    /\ UNCHANGED notBuild
    /\ LET src_dict == task.src_dict        \* line 74
           tgt_dict == task.tgt_dict
           c1 == [cfg EXCEPT !.encoder = with_layers(cfg.encoder),
                             !.decoder = with_layers(cfg.decoder)]
           branch == embed_branch(c1)
           err == share_all_conflict(c1, src_dict, tgt_dict)
       IN
       IF branch = "share_all" /\ err # ""
       THEN \* lines 78, 80, 86: raise ValueError
            /\ bm_status' = "ValueError"
            /\ cfg' = c1
            /\ UNCHANGED <<task, dicts, embeddings, model>>
       ELSE LET \* line 97: src_dict.update(tgt_dict)
                ds == IF branch = "merge"
                      THEN [dicts EXCEPT ![src_dict] = dicts[src_dict] \cup dicts[tgt_dict]]
                      ELSE dicts
                enc_emb == build_embedding(ds, src_dict, c1.encoder.embed_dim,
                              IF branch = "merge" THEN None
                              ELSE c1.encoder.embed_path)
                dec_emb == build_embedding(ds, tgt_dict, c1.decoder.embed_dim,
                              c1.decoder.embed_path)
                built == IF branch = "separate" THEN <<enc_emb, dec_emb>>
                         ELSE <<enc_emb>>
                c2 == IF branch = "separate" THEN c1
                      ELSE [c1 EXCEPT !.share_decoder_input_output_embed = TRUE]
            IN
            /\ dicts' = ds
            /\ task' = IF branch = "merge"   \* lines 98-99
                       THEN [src_dict |-> src_dict, tgt_dict |-> src_dict]
                       ELSE task
            /\ embeddings' = embeddings \o built
            /\ cfg' = with_checkpointing(c2)
               \* lines 115-117: the encoder over src_dict, the decoder over
               \* the local tgt_dict, each with its embedding
            /\ model' = [encoder |-> [dictionary |-> src_dict,
                                      embed_tokens |-> Len(embeddings) + 1],
                         decoder |-> [dictionary |-> tgt_dict,
                                      embed_tokens |-> Len(embeddings) + Len(built)]]
            /\ bm_status' = "returned"

NextBuild == build_model

(***************************************************************************)
(*                   TransformerModelBase.power_method                     *)
(***************************************************************************)

\* the largest max_steps argument explored
MaxStepsArg == 3
\* entries of the estimate sigma
NEntries == 2
\* the estimate's entries, in units of 0.005, run over 0..MaxSigma
MaxSigma == 3
\* the threshold 1e-2 of line 204, in units of 0.005
Tol == 2
\* a local that was never assigned
Unbound == << >>

Entries == 0..MaxSigma
Estimates == [1..NEntries -> Entries]

\* torch.abs(a - b) < 1e-2 for one entry
close(a, b) == (IF a >= b THEN a - b ELSE b - a) < Tol

\* line 204: torch.all(torch.abs(sigma - sigma_prev) < 1e-2)
all_close(s, t) == \A i \in 1..NEntries : close(s[i], t[i])

\* line 196: torch.zeros_like(...)
zeros == [i \in 1..NEntries |-> 0]

\* Whether cls.encoder (line 191) and the global name weight (line 194)
\* resolve, and whether src_tokens is a floating tensor (randn_like, line
\* 192), depend on the namespace and arguments power_method is called with.
InitPower ==
    /\ pm_pc = "start"
    /\ pm_env \in [cls_encoder : BOOLEAN, weight : BOOLEAN, float_tokens : BOOLEAN]
    /\ max_steps \in 0..MaxStepsArg
    /\ step = 0
    /\ sigma = Unbound
    /\ sigma_prev = Unbound
    /\ pm_error = ""

\* lines 191-196
pm_prelude ==
    /\ pm_pc = "start"
    /\ IF ~pm_env.cls_encoder
       THEN pm_pc' = "raised" /\ pm_error' = "AttributeError" /\ UNCHANGED sigma_prev
       ELSE IF ~pm_env.float_tokens
       THEN pm_pc' = "raised" /\ pm_error' = "RuntimeError" /\ UNCHANGED sigma_prev
       ELSE IF ~pm_env.weight
       THEN pm_pc' = "raised" /\ pm_error' = "NameError" /\ UNCHANGED sigma_prev
       ELSE pm_pc' = "loop" /\ sigma_prev' = zeros /\ UNCHANGED pm_error
    /\ UNCHANGED <<pm_env, max_steps, step, sigma>>
    /\ UNCHANGED notPower

\* lines 197-205, one iteration: u = jvp(v), normalised; v = vjp(u),
\* normalised; sigma = u^T u, whose entries est the callables decide; then
\* the test of line 204.  sigma_prev is not assigned in the loop.
pm_iterate(est) ==
    /\ pm_pc = "loop"
    /\ step < max_steps
    /\ step' = step + 1
    /\ sigma' = est
    /\ pm_pc' = IF all_close(est, sigma_prev) THEN "break" ELSE "loop"
    /\ UNCHANGED <<pm_env, max_steps, sigma_prev, pm_error>>
    /\ UNCHANGED notPower

\* line 207: return sigma
pm_return ==
    /\ \/ pm_pc = "break"
       \/ pm_pc = "loop" /\ step >= max_steps
    /\ IF sigma = Unbound
       THEN pm_pc' = "raised" /\ pm_error' = "UnboundLocalError"
       ELSE pm_pc' = "returned" /\ UNCHANGED pm_error
    /\ UNCHANGED <<pm_env, max_steps, step, sigma, sigma_prev>>
    /\ UNCHANGED notPower

NextPower ==
    \/ pm_prelude
    \/ \E est \in Estimates : pm_iterate(est)
    \/ pm_return

(***************************************************************************)
(*   operator_norm_implicit, operator_norm_implicit_hessian, operator_norm *)
(*   and EmbeddedModel.  Tensors are modelled by their shapes.             *)
(***************************************************************************)

\* sizes of the inputs: batch, source length, target length, vocabulary
BatchSizes == {1, 2}
SrcLens == {2, 5}
TgtLens == {1, 5}
Vocabs == {5, 10}

Estimators == {"operator_norm_implicit", "operator_norm_implicit_hessian",
               "operator_norm"}

\* a local not computed yet
Unset == <<0>>
NoShapes == [x |-> Unset, decoder_adj |-> Unset, out |-> Unset,
             inner_product |-> Unset, outer_product |-> Unset,
             op_norm |-> Unset]

\* the result of a tensor operation: a shape, or a shape error
Ok(shape) == [ok |-> TRUE, shape |-> shape]
Fail == [ok |-> FALSE, shape |-> Unset]

RECURSIVE Reverse(_)
Reverse(s) == IF s = << >> THEN << >> ELSE Append(Reverse(Tail(s)), Head(s))

RECURSIVE Numel(_)
Numel(s) == IF s = << >> THEN 1 ELSE Head(s) * Numel(Tail(s))

\* Tensor.T: the dimensions reversed (for every rank)
T(s) == Reverse(s)

\* torch.matmul(a, b) for a matrix a and b of rank >= 2: a multiplies the
\* matrices in the last two dimensions of b, the others are batch dimensions
matmul(a, b) ==
    IF Len(a) = 2 /\ Len(b) >= 2 /\ a[2] = b[Len(b) - 1]
    THEN Ok(SubSeq(b, 1, Len(b) - 2) \o <<a[1], b[Len(b)]>>)
    ELSE Fail

\* Tensor.reshape(-1, d)
reshape(s, d) == IF Numel(s) % d = 0 THEN Ok(<<Numel(s) \div d, d>>) ELSE Fail

\* Tensor.squeeze(): the dimensions of size 1 removed
squeeze(s) == SelectSeq(s, LAMBDA n : n # 1)

\* torch.bmm(jv.unsqueeze(-2), jv.unsqueeze(-1)) for jv of shape [n, d]
bmm_self(jv) == <<jv[1], 1, 1>>

\* Tensor.diagonal(offset=0, dim1=-2, dim2=-1)
diagonal(s) ==
    IF Len(s) >= 2
    THEN Ok(SubSeq(s, 1, Len(s) - 2) \o <<Min(s[Len(s) - 1], s[Len(s)])>>)
    ELSE Fail

\* Tensor.sum(dim=-1)
sum_last(s) == SubSeq(s, 1, Len(s) - 1)

\* torch.trace: defined on matrices only
trace(s) == IF Len(s) = 2 THEN Ok(<< >>) ELSE Fail

\* encoder.embed_tokens.weight and decoder.embed_tokens.weight: [vocab, dim]
embed_weight(a) == <<a.V, a.D>>

\* encoder.forward_embedding, line 245: x is [batch, seq_len, dim], or
\* [batch*seq_len, dim] when the encoder flattens it
embedding_shape(a) ==
    IF a.x_flat THEN <<a.B * a.T, a.D>> ELSE <<a.B, a.T, a.D>>

\* model_forward, lines 248-249: the decoder features [batch, tgt_len, dim]
\* reshaped to (-1, decoder_adj.shape[-1])
model_forward(a, adj) == reshape(<<a.B, a.Tgt, a.D>>, adj[Len(adj)])

\* jvp_embed_fn, lines 262-266: matmul(decoder_adj, jv.T).T
jvp_embed_fn(adj, jv) ==
    LET m == matmul(adj, T(jv)) IN IF m.ok THEN Ok(T(m.shape)) ELSE Fail

\* vjp_fn, lines 268-272: the cotangent must have the shape of the output;
\* the result has the shape of x
vjp_fn(adj, out, x) ==
    LET e == jvp_embed_fn(adj, out)
    IN IF e.ok /\ e.shape = out THEN Ok(x) ELSE Fail

\* vjvp_fn, lines 347-351
vjvp_fn(adj, out) ==
    LET e == jvp_embed_fn(adj, out)
    IN IF e.ok THEN Ok(squeeze(bmm_self(e.shape))) ELSE Fail

\* vjvp_fn and contract of operator_norm, lines 414-426
contract(out) ==
    LET vjv == squeeze(bmm_self(out)) IN trace(Append(vjv, 1))

\* lines 279-280, 358-359, 433-434: jacrev(f)(dummy) has the shape of f's
\* output followed by that of dummy; jacfwd(jacrev(f)) appends it once more
jacobian(fn, adj, out, x) ==
    IF fn = "operator_norm_implicit"
    THEN LET f == vjp_fn(adj, out, x)
         IN IF f.ok THEN Ok(f.shape \o x) ELSE Fail
    ELSE IF fn = "operator_norm_implicit_hessian"
    THEN LET f == vjvp_fn(adj, out)
         IN IF f.ok THEN Ok(f.shape \o x \o x) ELSE Fail
    ELSE LET f == contract(out)
         IN IF f.ok THEN Ok(f.shape \o x \o x) ELSE Fail

\* line 282: matmul(encoder_w.T, inner_product.T).T
project_inner(w, inner) ==
    LET m == matmul(T(w), T(inner)) IN IF m.ok THEN Ok(T(m.shape)) ELSE Fail

\* line 283: matmul(encoder_w.T, inner_product)
project_outer(w, inner) == matmul(T(w), inner)

\* line 285: sqrt(outer_product.diagonal(0, -2, -1).sum(dim=-1))
reduce_norm(outer) ==
    LET d == diagonal(outer) IN IF d.ok THEN Ok(sum_last(d.shape)) ELSE Fail

\* nn.Module.cuda(): the module itself is moved, its values are kept
moved_to_cuda(m) == [m EXCEPT !.device = "cuda"]

Module(name) == [device : {"cpu", "cuda"}, params : {name}, buffers : {name}]

InitNorm ==
    /\ cuda_available \in BOOLEAN
    /\ encoder \in Module("enc")
    /\ decoder \in Module("dec")
    /\ (encoder.device = "cuda" \/ decoder.device = "cuda") => cuda_available
    /\ nm_pc = "idle"
    /\ nm_fn = "none"
    /\ nm_args = None
    /\ before = None
    /\ snapshot = None
    /\ shapes = NoShapes
    /\ evals = 0
    /\ nm_error = ""

Args == [B : BatchSizes, T : SrcLens, Tgt : TgtLens, V : Vocabs,
         D : EmbedDims, x_flat : BOOLEAN, tokens_device : {"cpu", "cuda"}]

nm_raise(error) ==
    /\ nm_pc' = "raised"
    /\ nm_error' = error

\* a call of one of the three estimators, lines 213, 291, 367
nm_call(fn, a) ==
    /\ nm_pc \in {"idle", "returned", "raised"}
    /\ a.tokens_device = "cuda" => cuda_available
    /\ nm_pc' = "construct"
    /\ nm_fn' = fn
    /\ nm_args' = a
    /\ before' = [encoder |-> encoder, decoder |-> decoder]
    /\ snapshot' = None
    /\ shapes' = NoShapes
    /\ evals' = 0
    /\ nm_error' = ""
    /\ UNCHANGED <<encoder, decoder, cuda_available>>
    /\ UNCHANGED notNorm

\* EmbeddedModel(self.encoder, self.decoder, ...), lines 242 and 447-452
nm_construct ==
    /\ nm_pc = "construct"
    /\ IF cuda_available
       THEN /\ encoder' = moved_to_cuda(encoder)
            /\ decoder' = moved_to_cuda(decoder)
            /\ nm_pc' = "functional"
            /\ UNCHANGED nm_error
       ELSE /\ nm_raise("RuntimeError: no CUDA")
            /\ UNCHANGED <<encoder, decoder>>
    /\ UNCHANGED <<cuda_available, nm_fn, nm_args, before, snapshot, shapes, evals>>
    /\ UNCHANGED notNorm

\* make_functional_with_buffers(embedded_model), line 244
nm_functional ==
    /\ nm_pc = "functional"
    /\ snapshot' = [params |-> <<encoder.params, decoder.params>>,
                    buffers |-> <<encoder.buffers, decoder.buffers>>]
    /\ nm_pc' = "embed"
    /\ UNCHANGED <<encoder, decoder, cuda_available, nm_fn, nm_args, before,
                   shapes, evals, nm_error>>
    /\ UNCHANGED notNorm

\* x, embedding = self.encoder.forward_embedding(src_tokens), line 245
nm_embed ==
    /\ nm_pc = "embed"
    /\ IF nm_args.tokens_device = encoder.device
       THEN /\ shapes' = [shapes EXCEPT !.x = embedding_shape(nm_args)]
            /\ nm_pc' = "adjacency"
            /\ UNCHANGED nm_error
       ELSE /\ nm_raise("RuntimeError: device")
            /\ UNCHANGED shapes
    /\ UNCHANGED <<encoder, decoder, cuda_available, nm_fn, nm_args, before,
                   snapshot, evals>>
    /\ UNCHANGED notNorm

\* decoder_adj = matmul(W_dec.T, W_dec), line 247
nm_adjacency ==
    /\ nm_pc = "adjacency"
    /\ shapes' = [shapes EXCEPT !.decoder_adj =
                    matmul(T(embed_weight(nm_args)), embed_weight(nm_args)).shape]
    /\ nm_pc' = "log"
    /\ UNCHANGED <<encoder, decoder, cuda_available, nm_fn, nm_args, before,
                   snapshot, evals, nm_error>>
    /\ UNCHANGED notNorm

\* logger.info(f"model_forward(x): {model_forward(x).shape}"), line 252
nm_log ==
    /\ nm_pc = "log"
    /\ LET out == model_forward(nm_args, shapes.decoder_adj)
       IN IF out.ok
          THEN /\ shapes' = [shapes EXCEPT !.out = out.shape]
               /\ nm_pc' = "jacobian"
               /\ UNCHANGED nm_error
          ELSE /\ nm_raise("RuntimeError: shape")
               /\ UNCHANGED shapes
    /\ evals' = evals + 1
    /\ UNCHANGED <<encoder, decoder, cuda_available, nm_fn, nm_args, before, snapshot>>
    /\ UNCHANGED notNorm

\* inner_product = inner_product_fn(dummy), lines 277-280 (356-359, 431-437);
\* operator_norm returns it as it is
nm_jacobian ==
    /\ nm_pc = "jacobian"
    /\ LET j == jacobian(nm_fn, shapes.decoder_adj, shapes.out, shapes.x)
       IN IF ~j.ok
          THEN /\ nm_raise("RuntimeError: shape")
               /\ UNCHANGED shapes
          ELSE IF nm_fn = "operator_norm"
          THEN /\ shapes' = [shapes EXCEPT !.inner_product = j.shape,
                                           !.op_norm = j.shape]
               /\ nm_pc' = "returned"
               /\ UNCHANGED nm_error
          ELSE /\ shapes' = [shapes EXCEPT !.inner_product = j.shape]
               /\ nm_pc' = "project"
               /\ UNCHANGED nm_error
    /\ evals' = evals + 2
    /\ UNCHANGED <<encoder, decoder, cuda_available, nm_fn, nm_args, before, snapshot>>
    /\ UNCHANGED notNorm

\* lines 282-283 (361-362)
nm_project ==
    /\ nm_pc = "project"
    /\ LET w == embed_weight(nm_args)
           inner == project_inner(w, shapes.inner_product)
           outer == IF inner.ok THEN project_outer(w, inner.shape) ELSE Fail
       IN IF outer.ok
          THEN /\ shapes' = [shapes EXCEPT !.inner_product = inner.shape,
                                           !.outer_product = outer.shape]
               /\ nm_pc' = "reduce"
               /\ UNCHANGED nm_error
          ELSE /\ nm_raise("RuntimeError: shape")
               /\ shapes' = IF inner.ok
                            THEN [shapes EXCEPT !.inner_product = inner.shape]
                            ELSE shapes
    /\ UNCHANGED <<encoder, decoder, cuda_available, nm_fn, nm_args, before,
                   snapshot, evals>>
    /\ UNCHANGED notNorm

\* lines 285-289 (364-365)
nm_reduce ==
    /\ nm_pc = "reduce"
    /\ LET r == reduce_norm(shapes.outer_product)
       IN /\ r.ok
          /\ shapes' = [shapes EXCEPT !.op_norm = r.shape]
    /\ nm_pc' = "returned"
    /\ UNCHANGED <<encoder, decoder, cuda_available, nm_fn, nm_args, before,
                   snapshot, evals, nm_error>>
    /\ UNCHANGED notNorm

NextNorm ==
    \/ \E fn \in Estimators, a \in Args : nm_call(fn, a)
    \/ nm_construct
    \/ nm_functional
    \/ nm_embed
    \/ nm_adjacency
    \/ nm_log
    \/ nm_jacobian
    \/ nm_project
    \/ nm_reduce

(***************************************************************************)
(*                            Specifications                               *)
(***************************************************************************)

IdleEmb ==
    /\ retain_input_grad = FALSE
    /\ one_hot = None
    /\ tensors = << >>
    /\ weight_requires_grad = TRUE
    /\ last_call = [op |-> "init", arg |-> 0]
    /\ retain_true_called = FALSE
    /\ retain_at_forward = FALSE

IdleBuild ==
    /\ cfg = None
    /\ task = None
    /\ dicts = None
    /\ embeddings = << >>
    /\ model = None
    /\ bm_status = "idle"

IdlePower ==
    /\ pm_pc = "start"
    /\ pm_env = None
    /\ max_steps = 0
    /\ step = 0
    /\ sigma = Unbound
    /\ sigma_prev = Unbound
    /\ pm_error = ""

IdleNorm ==
    /\ cuda_available = TRUE
    /\ encoder = None
    /\ decoder = None
    /\ nm_pc = "idle"
    /\ nm_fn = "none"
    /\ nm_args = None
    /\ before = None
    /\ snapshot = None
    /\ shapes = NoShapes
    /\ evals = 0
    /\ nm_error = ""

EmbInit == InitEmb /\ IdleBuild /\ IdlePower /\ IdleNorm
SpecEmb == EmbInit /\ [][NextEmb]_vars

BuildInit == IdleEmb /\ InitBuild /\ IdlePower /\ IdleNorm
SpecBuild == BuildInit /\ [][NextBuild]_vars

PowerInit == IdleEmb /\ IdleBuild /\ InitPower /\ IdleNorm
SpecPower == PowerInit /\ [][NextPower]_vars

NormInit == IdleEmb /\ IdleBuild /\ IdlePower /\ InitNorm
SpecNorm == NormInit /\ [][NextNorm]_vars

(***************************************************************************)
(*                                Claims                                   *)
(***************************************************************************)

\* a step of power_method's loop, the k-th iteration being step'
IsIteration == pm_pc = "loop" /\ step' = step + 1

\* C1: in power_method the loop stops early at iteration k >= 2 exactly when
\* the estimate of iteration k differs from the estimate of iteration k-1 by
\* less than 1e-2 in every entry.
C1_StopsWhenEstimateSettles ==
    [][(IsIteration /\ step' >= 2)
         => ((pm_pc' = "break") <=> all_close(sigma', sigma))]_vars

\* the prelude of power_method (lines 191-196) resolves every name it uses
PreludeRuns == pm_env.cls_encoder /\ pm_env.weight /\ pm_env.float_tokens

\* C2: for every max_steps >= 0 power_method ends after at most max_steps
\* iterations and returns an estimate; running out of iterations is not an
\* error.
C2_ReturnsEstimate ==
    (PreludeRuns /\ pm_pc \in {"returned", "raised"})
        => (pm_pc = "returned" /\ sigma \in Estimates /\ step <= max_steps)

\* C3: input_grad() is None in every state in which no forward call has
\* happened yet or retain_input_grad_(True) was never called.
C3_NoGradWithoutForwardOrRetain ==
    (one_hot = None \/ ~retain_true_called) => input_grad = None

\* a backward pass ran through the last forward call's output, and
\* retain_input_grad_(True) was never called
C3_Witness ==
    /\ ~retain_true_called
    /\ one_hot # None
    /\ last_call = [op |-> "backward", arg |-> one_hot]

\* the last operation was a backward pass through the output of the last
\* forward call
BackwardThroughLast ==
    one_hot # None /\ last_call = [op |-> "backward", arg |-> one_hot]

\* C4 as stated: after a backward pass through the last forward call's
\* output a gradient is retrievable iff the most recent retain_input_grad_
\* call enabled it, whatever its order relative to that forward call.
C4_RetainWhateverTheOrder ==
    BackwardThroughLast => ((input_grad # None) <=> retain_input_grad)

\* C4 as amended: after a backward pass through the last forward call's
\* output a gradient is retrievable iff the flag was set when that forward
\* call ran.
C4_RetainAsOfForward ==
    BackwardThroughLast => ((input_grad # None) <=> retain_at_forward)

\* the flag was changed between the forward call and the backward pass, to
\* either value
C4_Witness ==
    /\ BackwardThroughLast
    /\ retain_at_forward
    /\ ~retain_input_grad
    /\ input_grad # None

\* C5: with share_all_embeddings set and the dictionaries different, or the
\* embed dims different, or a decoder embed path set that differs from the
\* encoder's, build_model raises ValueError having built no embedding,
\* encoder or decoder, and returns no model.
C5_FailFast ==
    ( /\ bm_status # "idle"
      /\ cfg.share_all_embeddings
      /\ \/ dicts[task.src_dict] # dicts[task.tgt_dict]
         \/ cfg.encoder.embed_dim # cfg.decoder.embed_dim
         \/ /\ cfg.decoder.embed_path # None
            /\ cfg.decoder.embed_path # cfg.encoder.embed_path )
    => (bm_status = "ValueError" /\ embeddings = << >> /\ model = None)

\* build_model raised because of the embed dims alone
C5_Witness ==
    /\ bm_status = "ValueError"
    /\ cfg.share_all_embeddings
    /\ dicts[task.src_dict] = dicts[task.tgt_dict]
    /\ cfg.encoder.embed_dim # cfg.decoder.embed_dim
    /\ cfg.decoder.embed_path = None

\* C6: unset_input_grad_() leaves input_grad() None, the stored intermediate
\* the same object, the flag and every tensor's other fields as they were;
\* with no forward call before it, it changes nothing.
C6_UnsetClearsOnly ==
    [][(last_call'.op = "unset_input_grad_")
         => /\ input_grad' = None
            /\ one_hot' = one_hot
            /\ retain_input_grad' = retain_input_grad
            /\ DOMAIN tensors' = DOMAIN tensors
            /\ \A id \in DOMAIN tensors :
                   [tensors'[id] EXCEPT !.grad = None]
                       = [tensors[id] EXCEPT !.grad = None]
            /\ (one_hot = None => tensors' = tensors)]_vars

\* unset_input_grad_ ran on an intermediate a backward pass had run through
C6_Witness ==
    /\ last_call.op = "unset_input_grad_"
    /\ one_hot # None
    /\ tensors[one_hot].requires_grad
    /\ ~tensors[one_hot].graph

\* C7: every forward call stores an intermediate that did not exist before,
\* so input_grad() is None after it, and becomes a gradient again only by a
\* backward pass through the output of that last forward call.
C7_FreshIntermediate ==
    [][/\ (last_call'.op = "forward" /\ last_call' # last_call)
            => /\ one_hot' \notin DOMAIN tensors
               /\ one_hot' # one_hot
               /\ input_grad' = None
       /\ (input_grad = None /\ input_grad' # None)
            => last_call' = [op |-> "backward", arg |-> one_hot']]_vars

\* a forward call ran after an earlier call's intermediate had a gradient
C7_Witness ==
    /\ last_call.op = "forward"
    /\ one_hot >= 2
    /\ tensors[one_hot - 1].grad # None

\* C8: after a call of an estimator the encoder, the decoder and the
\* snapshot are as before the call: values and, the call being over, device
\* placement.
C8_BorrowedUnchanged ==
    nm_pc \in {"returned", "raised"}
        => /\ encoder = before.encoder
           /\ decoder = before.decoder
           /\ nm_pc = "returned" =>
                snapshot = [params |-> <<before.encoder.params, before.decoder.params>>,
                            buffers |-> <<before.encoder.buffers, before.decoder.buffers>>]

\* C9: operator_norm_implicit meets no shape mismatch and returns a result
\* of shape [batch].
C9_OneScalarPerRow ==
    ( /\ nm_fn = "operator_norm_implicit"
      /\ nm_pc \in {"returned", "raised"}
      /\ nm_error \notin {"RuntimeError: no CUDA", "RuntimeError: device"} )
    => (nm_pc = "returned" /\ shapes.op_norm = <<nm_args.B>>)

\* C10: a returned model shares one embedding between encoder and decoder
\* and has share_decoder_input_output_embed set when share_all_embeddings or
\* merge_src_tgt_embed is set, share_all_embeddings deciding how it is built
\* when both are; otherwise it has two embeddings, built from the source and
\* the target dictionary, and the flag is as it was.
C10_EmbeddingSharing ==
    [][(bm_status = "idle" /\ bm_status' = "returned") =>
        LET enc == model'.encoder.embed_tokens
            dec == model'.decoder.embed_tokens
        IN IF cfg.share_all_embeddings \/ cfg.merge_src_tgt_embed
           THEN /\ enc = dec
                /\ Len(embeddings') = Len(embeddings) + 1
                /\ cfg'.share_decoder_input_output_embed
                /\ cfg.share_all_embeddings =>
                     /\ task' = task
                     /\ dicts' = dicts
                     /\ embeddings'[enc].path = cfg.encoder.embed_path
           ELSE /\ enc # dec
                /\ Len(embeddings') = Len(embeddings) + 2
                /\ embeddings'[enc].dictionary = task.src_dict
                /\ embeddings'[dec].dictionary = task.tgt_dict
                /\ cfg'.share_decoder_input_output_embed
                     = cfg.share_decoder_input_output_embed]_vars

\* a model was returned with both flags set and an encoder embed path
C10_Witness ==
    /\ bm_status = "returned"
    /\ cfg.share_all_embeddings
    /\ cfg.merge_src_tgt_embed
    /\ cfg.encoder.embed_path # None

=============================================================================
